---- MODULE Spec2Model ----
(***************************************************************************)
(* Order fulfilment saga of the order service: orderUseCase.CreateOrder,   *)
(* orderUseCase.UpdateOrderStatus, the postgres order repository and the   *)
(* inventory gRPC client, as a state machine.  Every invocation is a       *)
(* process; one action is one remote call (or one SQL statement) together  *)
(* with the local code that follows it up to the next call.                *)
(***************************************************************************)
EXTENDS Integers, Sequences, FiniteSets, TLC

\* ------------------------------------------------------------------ bounds
NProducts == 2        \* products 1..NProducts exist in the inventory
MaxItems == 2         \* longest item list of a request
MaxQty == 3           \* largest quantity of a line item
InitStock == 5        \* stock of every product before the first invocation
MaxFaults == 2        \* remote calls / SQL statements that may fail in a run
MaxPriceChanges == 1  \* price rises of one product while an order is taken
MaxOrders == 2        \* orders created in a run of invocations

Procs == {1, 2}
Products == 1..NProducts
UnknownProduct == NProducts + 1      \* an id the inventory does not know
PriceOf(id) == 10 * id               \* catalogue price of a product

StatusPending == "pending"
StatusCompleted == "completed"
StatusCancelled == "cancelled"

IsValidStatus(status) == status \in {StatusPending, StatusCompleted, StatusCancelled}

VARIABLES
    stock,                  \* inventory: product id -> stock
    price,                  \* inventory: product id -> price
    orderRows,              \* committed rows of table orders
    itemRows,               \* committed rows of table order_items
    nextId,                 \* next value of the orders id sequence
    tx,                     \* per process: the open transaction's own rows
    pc,                     \* per process: position in the handler
    op,                     \* per process: "create", "status" or "off"
    order,                  \* per process: the *domain.Order being created
    idx,                    \* per process: loop index over the items
    productsInfo,           \* per process: map productID -> productCheckInfo
    successfullyDecreased,  \* per process: map productID -> quantity
    left,                   \* per process: products a map loop has yet to visit
    trigErr,                \* per process: the error that started a rollback
    target,                 \* per process: (id, status) of UpdateOrderStatus
    currentOrder,           \* per process: order loaded by UpdateOrderStatus
    product,                \* per process: product read for the current item
    repoRet,                \* per process: what OrderStore.CreateOrder returned
    ret,                    \* per process: what the use case returned
    calls,                  \* per process: remote calls issued, in order
    stock0,                 \* per process: inventory stock when it started
    list,                   \* per process: ListOrders request and its query
    ctxDone,                \* per process: the request context is past its deadline
    faults                  \* failures injected so far

vars == <<stock, price, orderRows, itemRows, nextId, tx, pc, op, order, idx,
          productsInfo, successfullyDecreased, left, trigErr, target,
          currentOrder, product, repoRet, ret, calls, stock0, list, ctxDone, faults>>

storeVars == <<orderRows, itemRows, nextId, tx>>
ucCreateVars == <<order, productsInfo, successfullyDecreased, trigErr, repoRet>>
ucStatusVars == <<target, currentOrder, product>>

\* ----------------------------------------------------------------- helpers
EmptyMap == <<>>

MapPut(m, k, v) == [x \in (DOMAIN m) \cup {k} |-> IF x = k THEN v ELSE m[x]]

RECURSIVE SumQty(_, _)
\* aggregate quantity of the items of one product
SumQty(items, id) ==
    IF items = <<>> THEN 0
    ELSE (IF Head(items).ProductID = id THEN Head(items).Quantity ELSE 0)
         + SumQty(Tail(items), id)

ProductIDs(items) == {items[i].ProductID : i \in 1..Len(items)}

NoTx == [open |-> FALSE, header |-> {}, items |-> {}]
NoRet == [state |-> "none", err |-> "", orderId |-> 0]
NoProduct == [Stock |-> 0, Price |-> 0]
NoOrder == [ID |-> 0, UserID |-> 0, Status |-> "", Items |-> <<>>]
NoTarget == [id |-> 0, status |-> ""]
NoList == [userId |-> 0, limit |-> 0, offset |-> 0, sqlLimit |-> 0, sqlOffset |-> 0]

RetErr(e) == [state |-> "err", err |-> e, orderId |-> 0]
RetOk(id) == [state |-> "ok", err |-> "", orderId |-> id]
RetPanic == [state |-> "panic", err |-> "", orderId |-> 0]

Call(name, id, val, ok) == [call |-> name, id |-> id, val |-> val, ok |-> ok]

CanFail == faults < MaxFaults

\* a call of the inventory client for p fails: on its own, or at once and
\* without reaching the server because the context it derives its own from
\* (context.WithTimeout(ctx, ...)) is already done
CallFails(p) ==
    \/ /\ ctxDone[p]
       /\ UNCHANGED faults
    \/ /\ ~ctxDone[p]
       /\ CanFail
       /\ faults' = faults + 1

\* the order with the given id as other readers see it (GetOrderByID)
RowOf(id) == CHOOSE r \in orderRows : r.id = id
ItemsOf(id) == {r \in itemRows : r.order_id = id}


\* ------------------------------------------------- inventory gRPC client
\* inventoryGRPCClient.UpdateStock refuses a negative value before the call
ClientRejectsStock(newStock) == newStock < 0

\* productUseCase.UpdateProduct refuses an unknown product or a negative stock
ServerRejectsStock(id, newStock) == id \notin Products \/ newStock < 0

\* mutant: neither side looks at the value
UpdateStockNeverRefused(id, newStock) == FALSE

\* UpdateStock answers an error without changing the inventory
UpdateStockRefused(id, newStock) ==
    ClientRejectsStock(newStock) \/ ServerRejectsStock(id, newStock)

\* ------------------------------------------- orderUseCase.CreateOrder
\* mutant: the status the order comes with is not looked at
ValidationErrorAnyStatus(o) ==
    IF o.UserID <= 0 THEN "invalid user ID"
    ELSE IF Len(o.Items) = 0 THEN "order must contain at least one item"
    ELSE IF \E i \in 1..Len(o.Items) : o.Items[i].ProductID <= 0
    THEN "invalid product ID"
    ELSE IF \E i \in 1..Len(o.Items) : o.Items[i].Quantity <= 0
    THEN "quantity must be positive"
    ELSE IF \E i \in 1..Len(o.Items) : o.Items[i].Price < 0
    THEN "price cannot be negative"
    ELSE ""

\* mutant: the quantity of an item is not looked at
ValidationErrorNoQuantity(o) ==
    IF o.UserID <= 0 THEN "invalid user ID"
    ELSE IF Len(o.Items) = 0 THEN "order must contain at least one item"
    ELSE IF \E i \in 1..Len(o.Items) : o.Items[i].ProductID <= 0
    THEN "invalid product ID"
    ELSE IF \E i \in 1..Len(o.Items) : o.Items[i].Price < 0
    THEN "price cannot be negative"
    ELSE IF o.Status # "" /\ o.Status # StatusPending
    THEN "order can only be created with 'pending' status"
    ELSE ""

\* the validation at the head of CreateOrder: "" when the order passes
ValidationError(o) ==
    IF o.UserID <= 0 THEN "invalid user ID"
    ELSE IF Len(o.Items) = 0 THEN "order must contain at least one item"
    ELSE IF \E i \in 1..Len(o.Items) :
                o.Items[i].ProductID <= 0 \/ o.Items[i].Quantity <= 0
                \/ o.Items[i].Price < 0
    THEN LET i == CHOOSE k \in 1..Len(o.Items) :
                      /\ (o.Items[k].ProductID <= 0 \/ o.Items[k].Quantity <= 0
                          \/ o.Items[k].Price < 0)
                      /\ \A j \in 1..(k - 1) :
                            ~(o.Items[j].ProductID <= 0 \/ o.Items[j].Quantity <= 0
                              \/ o.Items[j].Price < 0)
         IN IF o.Items[i].ProductID <= 0 THEN "invalid product ID"
            ELSE IF o.Items[i].Quantity <= 0 THEN "quantity must be positive"
            ELSE "price cannot be negative"
    ELSE IF o.Status # "" /\ o.Status # StatusPending
    THEN "order can only be created with 'pending' status"
    ELSE ""

\* mutant: the check looks at the quantity of the line alone
CurrentRequestedThisLine(info, item) == item.Quantity

\* the quantity requested so far for the product of an item, this item included
CurrentRequested(info, item) ==
    item.Quantity
    + (IF item.ProductID \in DOMAIN info THEN info[item.ProductID].OrderQuantity ELSE 0)

\* the sufficiency test applied to the product just read
Insufficient(prod, info, item) == prod.Stock < CurrentRequested(info, item)

\* productsInfo after an item passed the check: a product seen before keeps
\* the Product of its first read and only adds the quantity
RecordItem(info, item, prod) ==
    IF item.ProductID \in DOMAIN info
    THEN [info EXCEPT ![item.ProductID].OrderQuantity = @ + item.Quantity]
    ELSE MapPut(info, item.ProductID,
                [Stock |-> prod.Stock, Price |-> prod.Price,
                 OrderQuantity |-> item.Quantity])

\* mutant: a negative result is clamped to zero instead of being sent
NewStockClamped(info) ==
    IF info.Stock - info.OrderQuantity < 0 THEN 0 ELSE info.Stock - info.OrderQuantity

\* mutant: the quantity is added instead of subtracted
NewStockAdded(info) == info.Stock + info.OrderQuantity

\* the absolute value sent to reserve a product
NewStock(info) == info.Stock - info.OrderQuantity

\* mutant: the rollback sends the reserved value again
RollbackStockReserved(info) == info.Stock - info.OrderQuantity

\* the absolute value sent to undo the reservation of a product
RollbackStock(info) == info.Stock

Return(p, r) ==
    /\ ret' = [ret EXCEPT ![p] = r]
    /\ pc' = [pc EXCEPT ![p] = "done"]

UC_Validate(p) ==
    /\ pc[p] = "uc_validate"
    /\ LET e == ValidationError(order[p]) IN
       IF e # ""
       THEN /\ Return(p, RetErr(e))
            /\ UNCHANGED <<order, idx>>
       ELSE /\ order' = [order EXCEPT ![p].Status =
                                  IF @ = "" THEN StatusPending ELSE @]
            /\ idx' = [idx EXCEPT ![p] = 1]
            /\ pc' = [pc EXCEPT ![p] = "uc_check"]
            /\ UNCHANGED ret
    /\ UNCHANGED <<stock, price, storeVars, op, list, ctxDone, productsInfo, successfullyDecreased,
                   left, trigErr, repoRet, ucStatusVars, calls, stock0, faults>>

\* one turn of the inventory check loop whose GetProduct fails
UC_CheckFail(p) ==
    /\ pc[p] = "uc_check"
    /\ LET item == order[p].Items[idx[p]] IN
       /\ \/ /\ item.ProductID \notin Products
             /\ ~ctxDone[p]
             /\ UNCHANGED faults
             /\ Return(p, RetErr("inventory check failed: product not found"))
          \/ /\ CallFails(p)
             /\ Return(p, RetErr("inventory check failed: inventory service error"))
       /\ calls' = [calls EXCEPT ![p] =
                       Append(@, Call("GetProduct", item.ProductID, 0, FALSE))]
    /\ UNCHANGED <<stock, price, storeVars, op, list, ctxDone, ucCreateVars, idx, left,
                   ucStatusVars, stock0>>

\* mutant: a line that passes the check is reserved at once
UC_CheckEager(p) ==
    /\ pc[p] = "uc_check"
    /\ LET item == order[p].Items[idx[p]]
           id == item.ProductID
       IN
       /\ id \in Products
       /\ ~ctxDone[p]
       /\ LET prod == [Stock |-> stock[id], Price |-> price[id]]
              info == RecordItem(productsInfo[p], item, prod)
          IN
          /\ calls' = [calls EXCEPT ![p] =
                          IF Insufficient(prod, productsInfo[p], item)
                          THEN Append(@, Call("GetProduct", id, prod.Stock, TRUE))
                          ELSE Append(Append(@, Call("GetProduct", id, prod.Stock, TRUE)),
                                      Call("UpdateStock", id, NewStock(info[id]), TRUE))]
          /\ stock' = IF Insufficient(prod, productsInfo[p], item)
                      THEN stock
                      ELSE [stock EXCEPT ![id] = NewStock(info[id])]
          /\ order' = [order EXCEPT ![p].Items[idx[p]].Price = prod.Price]
          /\ IF Insufficient(prod, productsInfo[p], item)
             THEN /\ Return(p, RetErr("insufficient stock"))
                  /\ UNCHANGED <<productsInfo, idx, left>>
             ELSE /\ productsInfo' = [productsInfo EXCEPT ![p] = info]
                  /\ idx' = [idx EXCEPT ![p] = @ + 1]
                  /\ IF idx[p] = Len(order[p].Items)
                     THEN /\ pc' = [pc EXCEPT ![p] = "uc_reserve"]
                          /\ left' = [left EXCEPT ![p] = DOMAIN info]
                     ELSE UNCHANGED <<pc, left>>
                  /\ UNCHANGED ret
    /\ UNCHANGED <<price, storeVars, op, list, ctxDone, successfullyDecreased, trigErr,
                   repoRet, ucStatusVars, stock0, faults>>

\* one turn of the inventory check loop whose GetProduct answers
UC_Check(p) ==
    /\ pc[p] = "uc_check"
    /\ LET item == order[p].Items[idx[p]]
           id == item.ProductID
       IN
       /\ id \in Products
       /\ ~ctxDone[p]
       /\ LET prod == [Stock |-> stock[id], Price |-> price[id]]
              info == RecordItem(productsInfo[p], item, prod)
          IN
          /\ calls' = [calls EXCEPT ![p] =
                          Append(@, Call("GetProduct", id, prod.Stock, TRUE))]
          /\ order' = [order EXCEPT ![p].Items[idx[p]].Price = prod.Price]
          /\ IF Insufficient(prod, productsInfo[p], item)
             THEN /\ Return(p, RetErr("insufficient stock"))
                  /\ UNCHANGED <<productsInfo, idx, left>>
             ELSE /\ productsInfo' = [productsInfo EXCEPT ![p] = info]
                  /\ idx' = [idx EXCEPT ![p] = @ + 1]
                  /\ IF idx[p] = Len(order[p].Items)
                     THEN /\ pc' = [pc EXCEPT ![p] = "uc_reserve"]
                          /\ left' = [left EXCEPT ![p] = DOMAIN info]
                     ELSE UNCHANGED <<pc, left>>
                  /\ UNCHANGED ret
    /\ UNCHANGED <<stock, price, storeVars, op, list, ctxDone, successfullyDecreased, trigErr,
                   repoRet, ucStatusVars, stock0, faults>>

\* one turn of the reservation loop (the map is visited in any order)
UC_Reserve(p) ==
    /\ pc[p] = "uc_reserve"
    /\ \E id \in left[p] :
          LET newStock == NewStock(productsInfo[p][id]) IN
          /\ stock' = [stock EXCEPT ![id] = newStock]
          /\ ~UpdateStockRefused(id, newStock)
          /\ ~ctxDone[p]
          /\ calls' = [calls EXCEPT ![p] =
                          Append(@, Call("UpdateStock", id, newStock, TRUE))]
          /\ successfullyDecreased' =
                [successfullyDecreased EXCEPT ![p] =
                    MapPut(@, id, productsInfo[p][id].OrderQuantity)]
          /\ left' = [left EXCEPT ![p] = @ \ {id}]
          /\ pc' = [pc EXCEPT ![p] =
                       IF left[p] = {id} THEN "repo_begin" ELSE "uc_reserve"]
    /\ UNCHANGED <<price, storeVars, op, list, ctxDone, order, idx, productsInfo, trigErr,
                   repoRet, ucStatusVars, ret, stock0, faults>>

\* a reservation UpdateStock fails: the rollback loop is entered
UC_ReserveFail(p) ==
    /\ pc[p] = "uc_reserve"
    /\ \E id \in left[p] :
          LET newStock == NewStock(productsInfo[p][id]) IN
          /\ \/ /\ UpdateStockRefused(id, newStock)
                /\ UNCHANGED faults
             \/ /\ ~UpdateStockRefused(id, newStock)
                /\ CallFails(p)
          /\ calls' = [calls EXCEPT ![p] =
                          Append(@, Call("UpdateStock", id, newStock, FALSE))]
          /\ trigErr' = [trigErr EXCEPT ![p] = "failed to reserve stock"]
          /\ left' = [left EXCEPT ![p] = DOMAIN successfullyDecreased[p]]
          /\ pc' = [pc EXCEPT ![p] = "uc_rollback"]
    /\ UNCHANGED <<stock, price, storeVars, op, list, ctxDone, order, idx, productsInfo,
                   successfullyDecreased, repoRet, ucStatusVars, ret, stock0>>

\* one turn of a rollback loop whose UpdateStock succeeds
UC_Rollback(p) ==
    /\ pc[p] = "uc_rollback"
    /\ \E id \in left[p] :
          LET rollbackStock == RollbackStock(productsInfo[p][id]) IN
          /\ ~UpdateStockRefused(id, rollbackStock)
          /\ ~ctxDone[p]
          /\ stock' = [stock EXCEPT ![id] = rollbackStock]
          /\ calls' = [calls EXCEPT ![p] =
                          Append(@, Call("Rollback", id, rollbackStock, TRUE))]
          /\ left' = [left EXCEPT ![p] = @ \ {id}]
    /\ UNCHANGED <<price, storeVars, pc, op, list, ctxDone, ucCreateVars, idx, ucStatusVars,
                   ret, stock0, faults>>

\* mutant: a failed rollback ends the call with its own error
UC_RollbackFailAbort(p) ==
    /\ pc[p] = "uc_rollback"
    /\ CallFails(p)
    /\ \E id \in left[p] :
          LET rollbackStock == RollbackStock(productsInfo[p][id]) IN
          /\ calls' = [calls EXCEPT ![p] =
                          Append(@, Call("Rollback", id, rollbackStock, FALSE))]
          /\ left' = [left EXCEPT ![p] = {}]
    /\ Return(p, RetErr("failed to rollback stock"))
    /\ UNCHANGED <<stock, price, storeVars, op, list, ctxDone, ucCreateVars, idx,
                   ucStatusVars, stock0>>

\* mutant: a failed rollback is tried again
UC_RollbackFailRetry(p) ==
    /\ pc[p] = "uc_rollback"
    /\ CallFails(p)
    /\ \E id \in left[p] :
          LET rollbackStock == RollbackStock(productsInfo[p][id]) IN
          /\ calls' = [calls EXCEPT ![p] =
                          Append(@, Call("Rollback", id, rollbackStock, FALSE))]
    /\ UNCHANGED <<stock, price, storeVars, pc, op, list, ctxDone, ucCreateVars, idx,
                   left, ucStatusVars, ret, stock0>>

\* one turn of a rollback loop whose UpdateStock fails: logged, loop goes on
UC_RollbackFail(p) ==
    /\ pc[p] = "uc_rollback"
    /\ CallFails(p)
    /\ \E id \in left[p] :
          LET rollbackStock == RollbackStock(productsInfo[p][id]) IN
          /\ calls' = [calls EXCEPT ![p] =
                          Append(@, Call("Rollback", id, rollbackStock, FALSE))]
          /\ left' = [left EXCEPT ![p] = @ \ {id}]
    /\ UNCHANGED <<stock, price, storeVars, pc, op, list, ctxDone, ucCreateVars, idx,
                   ucStatusVars, ret, stock0>>

\* the rollback loop is over: the triggering error is returned
UC_ReturnErr(p) ==
    /\ pc[p] = "uc_rollback"
    /\ left[p] = {}
    /\ Return(p, RetErr(trigErr[p]))
    /\ UNCHANGED <<stock, price, storeVars, op, list, ctxDone, ucCreateVars, idx, left,
                   ucStatusVars, calls, stock0, faults>>


\* ------------------------------- postgresOrderRepository.CreateOrder
\* what the repository hands back: is the order non-nil, is the error non-nil
RepoNone == [returned |-> FALSE, order |-> FALSE, err |-> FALSE]
RepoFailed == [returned |-> TRUE, order |-> FALSE, err |-> TRUE]
RepoCreated == [returned |-> TRUE, order |-> TRUE, err |-> FALSE]

\* "if err == nil && tx.Commit() != nil { return nil, err }": err is nil there
RepoCommitFailed == [returned |-> TRUE, order |-> FALSE, err |-> FALSE]

HeaderRow(o) == [id |-> o.ID, user_id |-> o.UserID, status |-> o.Status]

ItemRow(o, i) ==
    [order_id |-> o.ID, pos |-> i, product_id |-> o.Items[i].ProductID,
     quantity |-> o.Items[i].Quantity, price |-> o.Items[i].Price]

\* the tail of orderUseCase.CreateOrder, run when the repository has returned
AfterRepo(p, r) ==
    /\ repoRet' = [repoRet EXCEPT ![p] = r]
    /\ IF r.err
       THEN /\ trigErr' = [trigErr EXCEPT ![p] =
                              "failed to save order after reserving stock"]
            /\ left' = [left EXCEPT ![p] = DOMAIN successfullyDecreased[p]]
            /\ pc' = [pc EXCEPT ![p] = "uc_rollback"]
            /\ UNCHANGED ret
       ELSE /\ IF r.order
               THEN Return(p, RetOk(order[p].ID))
               ELSE Return(p, RetPanic)       \* createdOrder.ID on a nil order
            /\ UNCHANGED <<trigErr, left>>

\* a statement of the repository fails: the deferred function rolls back
RepoAbort(p) ==
    /\ CanFail
    /\ faults' = faults + 1
    /\ tx' = [tx EXCEPT ![p] = NoTx]
    /\ AfterRepo(p, RepoFailed)
    /\ UNCHANGED <<stock, price, orderRows, itemRows, nextId, op, list, ctxDone, order, idx,
                   productsInfo, successfullyDecreased, ucStatusVars, calls, stock0>>

Repo_Begin(p) ==
    /\ pc[p] = "repo_begin"
    /\ tx' = [tx EXCEPT ![p] = [open |-> TRUE, header |-> {}, items |-> {}]]
    /\ pc' = [pc EXCEPT ![p] = "repo_header"]
    /\ UNCHANGED <<stock, price, orderRows, itemRows, nextId, op, list, ctxDone, ucCreateVars,
                   idx, left, ucStatusVars, ret, calls, stock0, faults>>

Repo_BeginFail(p) ==
    /\ pc[p] = "repo_begin"
    /\ RepoAbort(p)

\* INSERT INTO orders ... RETURNING id: the row is the transaction's own
Repo_InsertOrder(p) ==
    /\ pc[p] = "repo_header"
    /\ order' = [order EXCEPT ![p].ID = nextId]
    /\ nextId' = nextId + 1
    /\ tx' = [tx EXCEPT ![p].header = {HeaderRow(order'[p])}]
    /\ pc' = [pc EXCEPT ![p] = "repo_prepare"]
    /\ UNCHANGED <<stock, price, orderRows, itemRows, op, list, ctxDone, idx, productsInfo,
                   successfullyDecreased, trigErr, repoRet, left, ucStatusVars,
                   ret, calls, stock0, faults>>

Repo_InsertOrderFail(p) ==
    /\ pc[p] = "repo_header"
    /\ RepoAbort(p)

Repo_Prepare(p) ==
    /\ pc[p] = "repo_prepare"
    /\ idx' = [idx EXCEPT ![p] = 1]
    /\ pc' = [pc EXCEPT ![p] = "repo_item"]
    /\ UNCHANGED <<stock, price, storeVars, op, list, ctxDone, ucCreateVars, left, ucStatusVars,
                   ret, calls, stock0, faults>>

Repo_PrepareFail(p) ==
    /\ pc[p] = "repo_prepare"
    /\ RepoAbort(p)

\* mutant: the item row is written outside the transaction
Repo_InsertItemAutocommit(p) ==
    /\ pc[p] = "repo_item"
    /\ itemRows' = itemRows \cup {ItemRow(order[p], idx[p])}
    /\ idx' = [idx EXCEPT ![p] = @ + 1]
    /\ pc' = [pc EXCEPT ![p] =
                 IF idx[p] = Len(order[p].Items) THEN "repo_commit" ELSE "repo_item"]
    /\ UNCHANGED <<stock, price, orderRows, tx, nextId, op, list, ctxDone, ucCreateVars,
                   left, ucStatusVars, ret, calls, stock0, faults>>

\* one INSERT INTO order_items
Repo_InsertItem(p) ==
    /\ pc[p] = "repo_item"
    /\ tx' = [tx EXCEPT ![p].items = @ \cup {ItemRow(order[p], idx[p])}]
    /\ idx' = [idx EXCEPT ![p] = @ + 1]
    /\ pc' = [pc EXCEPT ![p] =
                 IF idx[p] = Len(order[p].Items) THEN "repo_commit" ELSE "repo_item"]
    /\ UNCHANGED <<stock, price, orderRows, itemRows, nextId, op, list, ctxDone, ucCreateVars,
                   left, ucStatusVars, ret, calls, stock0, faults>>

Repo_InsertItemFail(p) ==
    /\ pc[p] = "repo_item"
    /\ RepoAbort(p)

\* tx.Commit() succeeds: header and items become visible together
Repo_Commit(p) ==
    /\ pc[p] = "repo_commit"
    /\ orderRows' = orderRows \cup tx[p].header
    /\ itemRows' = itemRows \cup tx[p].items
    /\ tx' = [tx EXCEPT ![p] = NoTx]
    /\ AfterRepo(p, RepoCreated)
    /\ UNCHANGED <<stock, price, nextId, op, list, ctxDone, order, idx, productsInfo,
                   successfullyDecreased, ucStatusVars, calls, stock0, faults>>

\* tx.Commit() fails: nothing becomes visible
Repo_CommitFail(p) ==
    /\ pc[p] = "repo_commit"
    /\ CanFail
    /\ faults' = faults + 1
    /\ tx' = [tx EXCEPT ![p] = NoTx]
    /\ AfterRepo(p, RepoCommitFailed)
    /\ UNCHANGED <<stock, price, orderRows, itemRows, nextId, op, list, ctxDone, order, idx,
                   productsInfo, successfullyDecreased, ucStatusVars, calls, stock0>>

CreateStep(p) ==
    \/ UC_Validate(p)
    \/ UC_CheckFail(p)
    \/ UC_Check(p)
    \/ UC_Reserve(p)
    \/ UC_ReserveFail(p)
    \/ UC_Rollback(p)
    \/ UC_RollbackFail(p)
    \/ UC_ReturnErr(p)
    \/ Repo_Begin(p)
    \/ Repo_BeginFail(p)
    \/ Repo_InsertOrder(p)
    \/ Repo_InsertOrderFail(p)
    \/ Repo_Prepare(p)
    \/ Repo_PrepareFail(p)
    \/ Repo_InsertItem(p)
    \/ Repo_InsertItemFail(p)
    \/ Repo_Commit(p)
    \/ Repo_CommitFail(p)

\* ------------------------------------- orderUseCase.UpdateOrderStatus
\* GetOrderByID: the header row and the item rows other readers see
LoadOrder(id) ==
    LET r == RowOf(id)
        rows == ItemsOf(id)
    IN [ID |-> r.id, UserID |-> r.user_id, Status |-> r.status,
        Items |-> [i \in 1..Cardinality(rows) |->
                      LET it == CHOOSE x \in rows : x.pos = i
                      IN [ProductID |-> it.product_id, Quantity |-> it.quantity,
                          Price |-> it.price]]]

\* the checks before any lookup: "" when they pass
TargetError(t) ==
    IF t.id <= 0 THEN "invalid order ID for status update"
    ELSE IF ~IsValidStatus(t.status) THEN "invalid target order status"
    ELSE ""

\* mutant: a completed order may be cancelled
TransitionErrorCancelledOnly(current, status) ==
    IF current = StatusCancelled /\ status # StatusCancelled
    THEN "cannot change status of a cancelled order"
    ELSE ""

\* the transition checks on the loaded order: "" when they pass
TransitionError(current, status) ==
    IF current = StatusCompleted /\ status = StatusCancelled
    THEN "cannot cancel a completed order"
    ELSE IF current = StatusCancelled /\ status # StatusCancelled
    THEN "cannot change status of a cancelled order"
    ELSE ""

\* mutant: the present status is not looked at
IsCancellingAnyCurrent(current, status) == status = StatusCancelled

IsCancelling(current, status) ==
    status = StatusCancelled /\ current # StatusCancelled

\* mutant: the quantity is taken off instead of returned
RestockValueSubtracted(prod, item) == prod.Stock - item.Quantity

\* the absolute value sent to return the quantity of an item
RestockValue(prod, item) == prod.Stock + item.Quantity

\* mutant: an UPDATE without its WHERE clause
UpdatedRowsAll(rows, id, status) ==
    {[r EXCEPT !.status = status] : r \in rows}

\* the UPDATE of postgresOrderRepository.UpdateOrderStatus: no test of the
\* row's present status
UpdatedRows(rows, id, status) ==
    {IF r.id = id THEN [r EXCEPT !.status = status] ELSE r : r \in rows}

\* where the cancellation loop goes after item i
AfterItem(p, i) ==
    IF i >= Len(currentOrder[p].Items) THEN "t_write" ELSE "t_get"

\* validation and GetOrderByID fail
T_LoadFail(p) ==
    /\ pc[p] = "t_load"
    /\ \/ /\ TargetError(target[p]) # ""
          /\ Return(p, RetErr(TargetError(target[p])))
          /\ UNCHANGED faults
       \/ /\ TargetError(target[p]) = ""
          /\ \A r \in orderRows : r.id # target[p].id
          /\ Return(p, RetErr("order not found"))
          /\ UNCHANGED faults
       \/ /\ TargetError(target[p]) = ""
          /\ CanFail
          /\ faults' = faults + 1
          /\ Return(p, RetErr("could not retrieve order"))
    /\ UNCHANGED <<stock, price, storeVars, op, list, ctxDone, ucCreateVars, idx, left,
                   ucStatusVars, calls, stock0>>

\* GetOrderByID answers; the transition checks are applied
T_Load(p) ==
    /\ pc[p] = "t_load"
    /\ TargetError(target[p]) = ""
    /\ \E r \in orderRows : r.id = target[p].id
    /\ LET cur == LoadOrder(target[p].id)
           e == TransitionError(cur.Status, target[p].status)
       IN
       /\ currentOrder' = [currentOrder EXCEPT ![p] = cur]
       /\ IF e # ""
          THEN /\ Return(p, RetErr(e))
               /\ UNCHANGED idx
          ELSE /\ idx' = [idx EXCEPT ![p] = 1]
               /\ pc' = [pc EXCEPT ![p] =
                            IF IsCancelling(cur.Status, target[p].status)
                               /\ Len(cur.Items) > 0
                            THEN "t_get" ELSE "t_write"]
               /\ UNCHANGED ret
    /\ UNCHANGED <<stock, price, storeVars, op, list, ctxDone, ucCreateVars, left, target,
                   product, calls, stock0, faults>>

\* cancellation loop: GetProduct of the item answers
T_Get(p) ==
    /\ pc[p] = "t_get"
    /\ ~ctxDone[p]
    /\ LET id == currentOrder[p].Items[idx[p]].ProductID IN
       /\ id \in Products
       /\ product' = [product EXCEPT ![p] =
                         [Stock |-> stock[id], Price |-> price[id]]]
       /\ calls' = [calls EXCEPT ![p] =
                       Append(@, Call("GetProduct", id, stock[id], TRUE))]
    /\ pc' = [pc EXCEPT ![p] = "t_set"]
    /\ UNCHANGED <<stock, price, storeVars, op, list, ctxDone, ucCreateVars, idx, left, target,
                   currentOrder, ret, stock0, faults>>

\* mutant: a failed GetProduct ends the call with an error
T_GetFailAbort(p) ==
    /\ pc[p] = "t_get"
    /\ CallFails(p)
    /\ calls' = [calls EXCEPT ![p] =
                    Append(@, Call("GetProduct",
                                   currentOrder[p].Items[idx[p]].ProductID, 0, FALSE))]
    /\ Return(p, RetErr("could not return stock"))
    /\ UNCHANGED <<stock, price, storeVars, op, list, ctxDone, ucCreateVars, idx, left,
                   ucStatusVars, stock0>>

\* cancellation loop: GetProduct of the item fails, the loop goes on
T_GetFail(p) ==
    /\ pc[p] = "t_get"
    /\ CallFails(p)
    /\ calls' = [calls EXCEPT ![p] =
                    Append(@, Call("GetProduct",
                                   currentOrder[p].Items[idx[p]].ProductID, 0, FALSE))]
    /\ idx' = [idx EXCEPT ![p] = @ + 1]
    /\ pc' = [pc EXCEPT ![p] = AfterItem(p, idx[p])]
    /\ UNCHANGED <<stock, price, storeVars, op, list, ctxDone, ucCreateVars, left, ucStatusVars,
                   ret, stock0>>

\* cancellation loop: the stock read plus the quantity is written back
T_Set(p) ==
    /\ pc[p] = "t_set"
    /\ LET item == currentOrder[p].Items[idx[p]]
           newStock == RestockValue(product[p], item)
       IN
       /\ ~UpdateStockRefused(item.ProductID, newStock)
       /\ ~ctxDone[p]
       /\ stock' = [stock EXCEPT ![item.ProductID] = newStock]
       /\ calls' = [calls EXCEPT ![p] =
                       Append(@, Call("Restock", item.ProductID, newStock, TRUE))]
    /\ idx' = [idx EXCEPT ![p] = @ + 1]
    /\ pc' = [pc EXCEPT ![p] = AfterItem(p, idx[p])]
    /\ UNCHANGED <<price, storeVars, op, list, ctxDone, ucCreateVars, left, ucStatusVars, ret,
                   stock0, faults>>

\* cancellation loop: the write fails, the loop goes on
T_SetFail(p) ==
    /\ pc[p] = "t_set"
    /\ CallFails(p)
    /\ LET item == currentOrder[p].Items[idx[p]] IN
       calls' = [calls EXCEPT ![p] =
                    Append(@, Call("Restock", item.ProductID,
                                   RestockValue(product[p], item), FALSE))]
    /\ idx' = [idx EXCEPT ![p] = @ + 1]
    /\ pc' = [pc EXCEPT ![p] = AfterItem(p, idx[p])]
    /\ UNCHANGED <<stock, price, storeVars, op, list, ctxDone, ucCreateVars, left, ucStatusVars,
                   ret, stock0>>

\* postgresOrderRepository.UpdateOrderStatus commits
T_Write(p) ==
    /\ pc[p] = "t_write"
    /\ orderRows' = UpdatedRows(orderRows, target[p].id, target[p].status)
    /\ Return(p, RetOk(target[p].id))
    /\ UNCHANGED <<stock, price, itemRows, nextId, tx, op, list, ctxDone, ucCreateVars, idx, left,
                   ucStatusVars, calls, stock0, faults>>

\* Begin, the UPDATE or the item query fails: rolled back, the error returned
T_WriteFail(p) ==
    /\ pc[p] = "t_write"
    /\ CanFail
    /\ faults' = faults + 1
    /\ Return(p, RetErr("could not update order status"))
    /\ UNCHANGED <<stock, price, storeVars, op, list, ctxDone, ucCreateVars, idx, left,
                   ucStatusVars, calls, stock0>>

\* the deferred tx.Commit() fails: its error is assigned to a local only, the
\* caller receives the updated order and no error
T_WriteCommitFail(p) ==
    /\ pc[p] = "t_write"
    /\ CanFail
    /\ faults' = faults + 1
    /\ Return(p, RetOk(target[p].id))
    /\ UNCHANGED <<stock, price, storeVars, op, list, ctxDone, ucCreateVars, idx, left,
                   ucStatusVars, calls, stock0>>

StatusStep(p) ==
    \/ T_LoadFail(p)
    \/ T_Load(p)
    \/ T_Get(p)
    \/ T_GetFail(p)
    \/ T_Set(p)
    \/ T_SetFail(p)
    \/ T_Write(p)
    \/ T_WriteFail(p)
    \/ T_WriteCommitFail(p)

\* --------------------------------------------- OrderHandler.CreateOrder
\* strings.ToLower(err.Error()) of the errors CreateOrder returns, word by
\* word ("n" stands for a number the message is formatted with)
ErrorWords(e) ==
    CASE e = "invalid user ID" -> <<"invalid", "user", "id">>
      [] e = "order must contain at least one item" ->
            <<"order", "must", "contain", "at", "least", "one", "item">>
      [] e = "invalid product ID" -> <<"item", "n", ":", "invalid", "product", "id">>
      [] e = "quantity must be positive" ->
            <<"item", "n", "(", "product", "n", ")", ":",
              "quantity", "must", "be", "positive">>
      [] e = "price cannot be negative" ->
            <<"item", "n", "(", "product", "n", ")", ":",
              "price", "cannot", "be", "negative">>
      [] e = "order can only be created with 'pending' status" ->
            <<"order", "can", "only", "be", "created", "with", "'pending'", "status">>
      [] e = "inventory check failed: product not found" ->
            <<"inventory", "check", "failed", "for", "product", "n", ":",
              "product", "with", "id", "n", "not", "found", "in", "inventory">>
      [] e = "inventory check failed: inventory service error" ->
            <<"inventory", "check", "failed", "for", "product", "n", ":",
              "inventory", "service", "grpc", "error">>
      [] e = "insufficient stock" ->
            <<"insufficient", "stock", "for", "product", "n", "(", "requested",
              "total", ":", "n", ",", "available", ":", "n", ")">>
      [] e = "failed to reserve stock" ->
            <<"failed", "to", "reserve", "stock", "for", "product", "n", ":",
              "inventory", "service", "grpc", "error">>
      [] e = "failed to save order after reserving stock" ->
            <<"failed", "to", "save", "order", "after", "reserving", "stock", ":",
              "could", "not", "create", "order", "entry">>
      [] OTHER -> <<e>>

\* strings.Contains on words
Contains(words, phrase) ==
    \E i \in 0..(Len(words) - Len(phrase)) :
        \A j \in 1..Len(phrase) : words[i + j] = phrase[j]

\* mapOrderDomainErrorToGrpcStatus: the code is chosen by the phrases the
\* lower-cased message contains
GrpcCode(words) ==
    IF Contains(words, <<"insufficient", "stock">>) THEN "FailedPrecondition"
    ELSE IF /\ Contains(words, <<"inventory", "check", "failed">>)
            /\ Contains(words, <<"not", "found">>)
    THEN "NotFound"
    ELSE IF \/ Contains(words, <<"cannot", "cancel", "a", "completed", "order">>)
            \/ Contains(words, <<"cannot", "change", "status", "of", "a",
                                  "cancelled", "order">>)
    THEN "FailedPrecondition"
    ELSE IF Contains(words, <<"not", "found">>) THEN "NotFound"
    ELSE IF \/ Contains(words, <<"invalid">>)
            \/ Contains(words, <<"must", "contain">>)
            \/ Contains(words, <<"cannot", "be", "empty">>)
    THEN "InvalidArgument"
    ELSE "Internal"

\* the status code with which OrderHandler.CreateOrder answers request req
\* when the use case, if it was called, returned r
CreateOrderCode(req, r) ==
    IF req.UserID <= 0 \/ Len(req.Items) = 0 THEN "InvalidArgument"
    ELSE IF r.state = "err" THEN GrpcCode(ErrorWords(r.err))
    ELSE "OK"

\* ------------------------------------------------ the request context
\* the deadline of the inbound request context passes (or its caller goes
\* away) while the invocation runs; the handler hands this context to the use
\* case, which hands it to every call of the inventory client
Ctx_Expire(p) ==
    /\ pc[p] \notin {"off", "done"}
    /\ ~ctxDone[p]
    /\ ctxDone' = [ctxDone EXCEPT ![p] = TRUE]
    /\ UNCHANGED <<stock, price, storeVars, pc, op, list, ucCreateVars, idx, left,
                   ucStatusVars, ret, calls, stock0, faults>>

\* ---------------------------------------------- OrderHandler.ListOrders
DefaultLimit == 10    \* page size when the requested one is not usable
MaxLimit == 100       \* largest page size the repository accepts

\* LIMIT of postgresOrderRepository.ListOrdersByUserID
RepoLimit(limit) == IF limit <= 0 \/ limit > MaxLimit THEN DefaultLimit ELSE limit

\* OFFSET of postgresOrderRepository.ListOrdersByUserID
RepoOffset(offset) == IF offset < 0 THEN 0 ELSE offset

\* the gRPC handler, the use case and the repository down to the query; the
\* handler and the use case pass limit and offset on as they came
ListOrders(p) ==
    /\ pc[p] = "l_handle"
    /\ IF list[p].userId <= 0
       THEN /\ Return(p, RetErr("Invalid User ID"))
            /\ UNCHANGED list
       ELSE /\ list' = [list EXCEPT ![p].sqlLimit = RepoLimit(list[p].limit),
                                    ![p].sqlOffset = RepoOffset(list[p].offset)]
            /\ Return(p, RetOk(0))
    /\ UNCHANGED <<stock, price, storeVars, op, ctxDone, ucCreateVars, idx, left,
                   ucStatusVars, calls, stock0, faults>>

\* ------------------------------------------ productUseCase.UpdateProduct
\* the catalogue is edited while orders are taken: a "price" update must be
\* positive and replaces the price of an existing product
PriceAccepted(id, newPrice) == id \in Products /\ newPrice > 0

Inv_UpdatePrice ==
    /\ \E id \in Products :
          LET newPrice == price[id] + 1 IN
          /\ newPrice <= PriceOf(id) + MaxPriceChanges
          /\ PriceAccepted(id, newPrice)
          /\ price' = [price EXCEPT ![id] = newPrice]
    /\ UNCHANGED <<stock, storeVars, pc, op, list, ctxDone, ucCreateVars, idx, left,
                   ucStatusVars, ret, calls, stock0, faults>>

\* ------------------------------------------------------ initial states
UserIDs == {0, 1}
ProductIDsIn == 0..UnknownProduct
Quantities == 0..MaxQty
CallerPrices == {0}
CreateStatuses == {"", StatusCompleted}

ItemsIn == [ProductID : ProductIDsIn, Quantity : Quantities, Price : CallerPrices]

SeqsUpTo(S, n) == UNION {[1..k -> S] : k \in 0..n}

NewOrder(u, st, its) == [ID |-> 0, UserID |-> u, Status |-> st, Items |-> its]

InitCommon ==
    /\ stock = [id \in Products |-> InitStock]
    /\ price = [id \in Products |-> PriceOf(id)]
    /\ tx = [p \in Procs |-> NoTx]
    /\ idx = [p \in Procs |-> 0]
    /\ productsInfo = [p \in Procs |-> EmptyMap]
    /\ successfullyDecreased = [p \in Procs |-> EmptyMap]
    /\ left = [p \in Procs |-> {}]
    /\ trigErr = [p \in Procs |-> ""]
    /\ currentOrder = [p \in Procs |-> NoOrder]
    /\ product = [p \in Procs |-> NoProduct]
    /\ repoRet = [p \in Procs |-> RepoNone]
    /\ ret = [p \in Procs |-> NoRet]
    /\ calls = [p \in Procs |-> <<>>]
    /\ stock0 = [p \in Procs |-> stock]
    /\ ctxDone = [p \in Procs |-> FALSE]
    /\ faults = 0

\* one CreateOrder invocation, nothing else running, an empty order store
InitSeq ==
    /\ InitCommon
    /\ list = [p \in Procs |-> NoList]
    /\ orderRows = {}
    /\ itemRows = {}
    /\ nextId = 1
    /\ op = [p \in Procs |-> IF p = 1 THEN "create" ELSE "off"]
    /\ pc = [p \in Procs |-> IF p = 1 THEN "uc_validate" ELSE "off"]
    /\ \E u \in UserIDs, st \in CreateStatuses, k \in 0..MaxItems :
          \E its \in [1..k -> ItemsIn] :
              order = [p \in Procs |-> IF p = 1 THEN NewOrder(u, st, its) ELSE NoOrder]
    /\ target = [p \in Procs |-> NoTarget]

NextSeq == \E p \in Procs : CreateStep(p)

SpecSeq == InitSeq /\ [][NextSeq]_vars


\* ---------------------------------------------- concurrent invocations
\* the order that exists when the concurrent invocations start: created by an
\* earlier CreateOrder for PreQty units of the product the invocations share
PreQty == 2
PreProduct == CHOOSE id \in Products : \A x \in Products : id <= x
PreOrder ==
    [ID |-> 1, UserID |-> 1, Status |-> StatusPending,
     Items |-> <<[ProductID |-> PreProduct, Quantity |-> PreQty,
                  Price |-> PriceOf(PreProduct)]>>]

ConcItems == [ProductID : {PreProduct}, Quantity : 1..MaxQty, Price : CallerPrices]
ConcOrders == {NewOrder(1, "", its) : its \in SeqsUpTo(ConcItems, 2) \ {<<>>}}
ConcTargets == [id : {1}, status : {StatusPending, StatusCompleted, StatusCancelled}]

\* two invocations at once, each a CreateOrder or an UpdateOrderStatus of the
\* existing order
InitConc ==
    /\ InitCommon
    /\ list = [p \in Procs |-> NoList]
    /\ orderRows = {HeaderRow(PreOrder)}
    /\ itemRows = {ItemRow(PreOrder, 1)}
    /\ nextId = 2
    /\ op \in [Procs -> {"create", "status"}]
    /\ pc = [p \in Procs |-> IF op[p] = "create" THEN "uc_validate" ELSE "t_load"]
    /\ order \in [Procs -> ConcOrders \cup {NoOrder}]
    /\ target \in [Procs -> ConcTargets \cup {NoTarget}]
    /\ \A p \in Procs : (op[p] = "create") = (order[p] # NoOrder)
    /\ \A p \in Procs : (op[p] = "status") = (target[p] # NoTarget)

NextConc == \E p \in Procs : CreateStep(p) \/ StatusStep(p)

SpecConc == InitConc /\ [][NextConc]_vars


\* ------------------------------- one invocation, caller prices, price edits
\* requests as the gRPC handler hands them over: every item carries the price
\* the caller put on the wire
WirePrices == {-1, 7}
WireItems == [ProductID : {0, PreProduct}, Quantity : {0, 1, PreQty}, Price : WirePrices]

\* one CreateOrder invocation on an empty order store while the catalogue
\* prices may change between any two of its steps
InitPrice ==
    /\ InitCommon
    /\ list = [p \in Procs |-> NoList]
    /\ orderRows = {}
    /\ itemRows = {}
    /\ nextId = 1
    /\ op = [p \in Procs |-> IF p = 1 THEN "create" ELSE "off"]
    /\ pc = [p \in Procs |-> IF p = 1 THEN "uc_validate" ELSE "off"]
    /\ \E u \in UserIDs, st \in CreateStatuses, k \in 0..MaxItems :
          \E its \in [1..k -> WireItems] :
              order = [p \in Procs |-> IF p = 1 THEN NewOrder(u, st, its) ELSE NoOrder]
    /\ target = [p \in Procs |-> NoTarget]

NextPrice == (\E p \in Procs : CreateStep(p)) \/ Inv_UpdatePrice

SpecPrice == InitPrice /\ [][NextPrice]_vars


\* ------------------- a stored order, a new order, a status change, price edits
\* the store holds one order; one invocation changes its status while the
\* other creates a second order and the catalogue prices are edited
InitFrame ==
    /\ InitCommon
    /\ list = [p \in Procs |-> NoList]
    /\ orderRows = {HeaderRow(PreOrder)}
    /\ itemRows = {ItemRow(PreOrder, 1)}
    /\ nextId = 2
    /\ op = [p \in Procs |-> IF p = 1 THEN "status" ELSE "create"]
    /\ pc = [p \in Procs |-> IF p = 1 THEN "t_load" ELSE "uc_validate"]
    /\ \E it \in ConcItems :
          order = [p \in Procs |-> IF p = 1 THEN NoOrder ELSE NewOrder(1, "", <<it>>)]
    /\ \E t \in ConcTargets :
          target = [p \in Procs |-> IF p = 1 THEN t ELSE NoTarget]

NextFrame ==
    \/ \E p \in Procs : CreateStep(p) \/ StatusStep(p)
    \/ Inv_UpdatePrice

SpecFrame == InitFrame /\ [][NextFrame]_vars


\* ------------------------------------- invocations one after another
\* one worker serves requests one at a time, starting on an empty store: each
\* request is a CreateOrder or an UpdateOrderStatus of an order created so far
RunItems == [ProductID : {PreProduct}, Quantity : {1, MaxQty}, Price : CallerPrices]
RunOrders == {NewOrder(1, "", <<it>>) : it \in RunItems}
RunTargets == [id : 1..MaxOrders, status : {StatusPending, StatusCompleted, StatusCancelled}]

Worker == CHOOSE p \in Procs : \A q \in Procs : p <= q

InitRuns ==
    /\ InitCommon
    /\ list = [p \in Procs |-> NoList]
    /\ orderRows = {}
    /\ itemRows = {}
    /\ nextId = 1
    /\ op = [p \in Procs |-> "off"]
    /\ pc = [p \in Procs |-> "off"]
    /\ order = [p \in Procs |-> NoOrder]
    /\ target = [p \in Procs |-> NoTarget]

\* the next request arrives when the worker has answered the one before
Invoke(p) ==
    /\ p = Worker
    /\ pc[p] \in {"off", "done"}
    /\ \/ /\ nextId <= MaxOrders
          /\ \E o \in RunOrders : order' = [order EXCEPT ![p] = o]
          /\ target' = [target EXCEPT ![p] = NoTarget]
          /\ op' = [op EXCEPT ![p] = "create"]
          /\ pc' = [pc EXCEPT ![p] = "uc_validate"]
       \/ /\ \E t \in RunTargets :
                /\ t.id < nextId
                /\ target' = [target EXCEPT ![p] = t]
          /\ order' = [order EXCEPT ![p] = NoOrder]
          /\ op' = [op EXCEPT ![p] = "status"]
          /\ pc' = [pc EXCEPT ![p] = "t_load"]
    /\ tx' = [tx EXCEPT ![p] = NoTx]
    /\ idx' = [idx EXCEPT ![p] = 0]
    /\ productsInfo' = [productsInfo EXCEPT ![p] = EmptyMap]
    /\ successfullyDecreased' = [successfullyDecreased EXCEPT ![p] = EmptyMap]
    /\ left' = [left EXCEPT ![p] = {}]
    /\ trigErr' = [trigErr EXCEPT ![p] = ""]
    /\ currentOrder' = [currentOrder EXCEPT ![p] = NoOrder]
    /\ product' = [product EXCEPT ![p] = NoProduct]
    /\ repoRet' = [repoRet EXCEPT ![p] = RepoNone]
    /\ ret' = [ret EXCEPT ![p] = NoRet]
    /\ calls' = [calls EXCEPT ![p] = <<>>]
    /\ stock0' = [stock0 EXCEPT ![p] = stock]
    /\ UNCHANGED <<stock, price, orderRows, itemRows, nextId, list, ctxDone, faults>>

NextRuns == \E p \in Procs : Invoke(p) \/ CreateStep(p) \/ StatusStep(p)

SpecRuns == InitRuns /\ [][NextRuns]_vars


\* ------------------------------ one invocation under a request deadline
DeadlineItems == [ProductID : Products, Quantity : {1}, Price : CallerPrices]
DeadlineOrders == {NewOrder(1, "", its) : its \in SeqsUpTo(DeadlineItems, MaxItems) \ {<<>>}}

\* one CreateOrder invocation whose request context may expire at any point
InitDeadline ==
    /\ InitCommon
    /\ list = [p \in Procs |-> NoList]
    /\ orderRows = {}
    /\ itemRows = {}
    /\ nextId = 1
    /\ op = [p \in Procs |-> IF p = 1 THEN "create" ELSE "off"]
    /\ pc = [p \in Procs |-> IF p = 1 THEN "uc_validate" ELSE "off"]
    /\ \E o \in DeadlineOrders :
          order = [p \in Procs |-> IF p = 1 THEN o ELSE NoOrder]
    /\ target = [p \in Procs |-> NoTarget]

NextDeadline == \E p \in Procs : CreateStep(p) \/ Ctx_Expire(p)

SpecDeadline == InitDeadline /\ [][NextDeadline]_vars

\* every remote call and every statement of an invocation returns, in time
\* or with the error of the expired context
SpecDeadlineFair == SpecDeadline /\ WF_vars(\E p \in Procs : CreateStep(p))

\* ------------------------------------------------- ListOrders requests
\* int32 limit and offset of the request; an absent field reads as 0
ListLimits == -1..(MaxLimit + 2)
ListOffsets == {-1, 0, 1}

\* one ListOrders request on the store that holds order 1
InitList ==
    /\ InitCommon
    /\ orderRows = {HeaderRow(PreOrder)}
    /\ itemRows = {ItemRow(PreOrder, 1)}
    /\ nextId = 2
    /\ op = [p \in Procs |-> IF p = 1 THEN "list" ELSE "off"]
    /\ pc = [p \in Procs |-> IF p = 1 THEN "l_handle" ELSE "off"]
    /\ order = [p \in Procs |-> NoOrder]
    /\ target = [p \in Procs |-> NoTarget]
    /\ \E u \in UserIDs, l \in ListLimits, o \in ListOffsets :
          list = [p \in Procs |->
                     IF p = 1
                     THEN [NoList EXCEPT !.userId = u, !.limit = l, !.offset = o]
                     ELSE NoList]

NextList == \E p \in Procs : ListOrders(p)

SpecList == InitList /\ [][NextList]_vars

\* ------------------------------------ status changes of a stored order
\* the items an earlier CreateOrder stored, priced from the catalogue
StoredItems ==
    {[ProductID |-> id, Quantity |-> q, Price |-> PriceOf(id)] :
        id \in Products, q \in {1, MaxQty}}

StoredOrders ==
    {[ID |-> 1, UserID |-> 1, Status |-> st, Items |-> its] :
        st \in {StatusPending, StatusCompleted, StatusCancelled},
        its \in SeqsUpTo(StoredItems, MaxItems) \ {<<>>}}

\* requests for order 1 with any status value, for a malformed id and for an
\* id the store does not hold
StatusTargets ==
    [id : {1}, status : {"", StatusPending, StatusCompleted, StatusCancelled}]
    \cup [id : {0, 2}, status : {StatusCancelled}]

\* one UpdateOrderStatus invocation on the store that holds order 1
InitStatus ==
    /\ InitCommon
    /\ list = [p \in Procs |-> NoList]
    /\ \E o \in StoredOrders :
          /\ orderRows = {HeaderRow(o)}
          /\ itemRows = {ItemRow(o, i) : i \in 1..Len(o.Items)}
    /\ nextId = 2
    /\ op = [p \in Procs |-> IF p = 1 THEN "status" ELSE "off"]
    /\ pc = [p \in Procs |-> IF p = 1 THEN "t_load" ELSE "off"]
    /\ order = [p \in Procs |-> NoOrder]
    /\ \E t \in StatusTargets :
          target = [p \in Procs |-> IF p = 1 THEN t ELSE NoTarget]

\* the caller sends the request of p again once p has answered
Repeat(p, q) ==
    /\ pc[p] = "done" /\ op[p] = "status"
    /\ op[q] = "off"
    /\ op' = [op EXCEPT ![q] = "status"]
    /\ pc' = [pc EXCEPT ![q] = "t_load"]
    /\ target' = [target EXCEPT ![q] = target[p]]
    /\ stock0' = [stock0 EXCEPT ![q] = stock]
    /\ UNCHANGED <<stock, price, storeVars, ucCreateVars, idx, left,
                   currentOrder, product, ret, calls, list, ctxDone, faults>>

NextStatus ==
    \/ \E p \in Procs : StatusStep(p)
    \/ \E p, q \in Procs : Repeat(p, q)

SpecStatus == InitStatus /\ [][NextStatus]_vars


\* =================================================================== claims
Creating(p) == op[p] = "create"
Done(p) == pc[p] = "done"

\* positions in the call log of p of the calls of one kind for one product
CallsTo(p, name, id) ==
    {i \in 1..Len(calls[p]) : calls[p][i].call = name /\ calls[p][i].id = id}

OkCallsTo(p, name, id) == {i \in CallsTo(p, name, id) : calls[p][i].ok}

\* the order of p is visible to other readers with exactly its items
Persisted(p) ==
    /\ order[p].ID # 0
    /\ HeaderRow(order[p]) \in orderRows
    /\ ItemsOf(order[p].ID) = {ItemRow(order[p], i) : i \in 1..Len(order[p].Items)}

CompensationsSucceeded(p) ==
    \A i \in 1..Len(calls[p]) : calls[p][i].call = "Rollback" => calls[p][i].ok

\* C1: a CreateOrder that runs alone and whose compensating calls all succeed
\* ends either with an order returned, persisted with all its items and every
\* product's stock lowered by the order's aggregate quantity, or with an error,
\* nothing persisted and every stock as before the call.
C1_OrderLevelAtomicity ==
    \A p \in Procs :
        (Creating(p) /\ Done(p) /\ CompensationsSucceeded(p)) =>
            \/ /\ ret[p].state = "ok"
               /\ Persisted(p)
               /\ \A id \in Products :
                     stock[id] = stock0[p][id] - SumQty(order[p].Items, id)
            \/ /\ ret[p].state = "err"
               /\ orderRows = {}
               /\ stock = stock0[p]

\* C1 apart from the commit failure of C4: the two outcomes are the only ones
\* whenever the repository did not answer (nil, nil)
C1_AtomicityUnlessNilNil ==
    \A p \in Procs :
        (Creating(p) /\ Done(p) /\ CompensationsSucceeded(p)
         /\ repoRet[p] # RepoCommitFailed) =>
            \/ /\ ret[p].state = "ok"
               /\ Persisted(p)
               /\ \A id \in Products :
                     stock[id] = stock0[p][id] - SumQty(order[p].Items, id)
            \/ /\ ret[p].state = "err"
               /\ orderRows = {}
               /\ stock = stock0[p]

\* C2: when a reservation UpdateStock fails, every product reserved earlier in
\* the invocation gets one compensating UpdateStock carrying its stock at check
\* time, no other product gets one, the order store is not written and an
\* error is returned.
C2_ReservationFailureCompensated ==
    \A p \in Procs :
        (Creating(p) /\ Done(p) /\ trigErr[p] = "failed to reserve stock") =>
            /\ \A id \in Products :
                  IF OkCallsTo(p, "UpdateStock", id) # {}
                  THEN /\ Cardinality(CallsTo(p, "Rollback", id)) = 1
                       /\ \A i \in CallsTo(p, "Rollback", id) :
                             calls[p][i].val = stock0[p][id]
                  ELSE CallsTo(p, "Rollback", id) = {}
            /\ repoRet[p] = RepoNone
            /\ nextId = 1
            /\ orderRows = {}
            /\ ret[p].state = "err"

C2_Witness ==
    \E p \in Procs :
        /\ Creating(p) /\ Done(p) /\ trigErr[p] = "failed to reserve stock"
        /\ \E id \in Products : OkCallsTo(p, "Rollback", id) # {}
        /\ \E id \in Products :
              CallsTo(p, "UpdateStock", id) # {} /\ OkCallsTo(p, "UpdateStock", id) = {}

\* the transaction of p's OrderStore.CreateOrder did not commit
StoreFailed(p) == repoRet[p].returned /\ ~Persisted(p)

\* C3: when OrderStore.CreateOrder fails after all reservations, every distinct
\* product of the order gets a compensating UpdateStock carrying its stock at
\* check time and the caller gets an error.
C3_StoreFailureCompensated ==
    \A p \in Procs :
        (Creating(p) /\ Done(p) /\ StoreFailed(p)) =>
            /\ \A id \in ProductIDs(order[p].Items) :
                  \E i \in CallsTo(p, "Rollback", id) :
                      calls[p][i].val = productsInfo[p][id].Stock
            /\ ret[p].state = "err"

\* C4: OrderStore.CreateOrder answers an error whenever its transaction did
\* not commit, a non-nil order only when it committed, and never (nil, nil).
C4_StoreOutcomeFaithful ==
    \A p \in Procs :
        repoRet[p].returned =>
            /\ ~Persisted(p) => repoRet[p].err
            /\ repoRet[p].order => Persisted(p)
            /\ repoRet[p].order \/ repoRet[p].err


\* C5: a header row is visible to other readers exactly when all item rows of
\* its order are; while the header is not visible no item row of it is, also
\* after an item insert failed.
C5_HeaderAndItemsTogether ==
    /\ \A p \in Procs :
          order[p].ID # 0 =>
              IF \E r \in orderRows : r.id = order[p].ID
              THEN ItemsOf(order[p].ID)
                       = {ItemRow(order[p], i) : i \in 1..Len(order[p].Items)}
              ELSE ItemsOf(order[p].ID) = {}
    /\ \A x \in itemRows : \E r \in orderRows : r.id = x.order_id

\* an item insert failed after the header and an earlier item were inserted
C5_Witness ==
    \E p \in Procs :
        /\ repoRet[p] = RepoFailed
        /\ order[p].ID # 0
        /\ 1 < idx[p] /\ idx[p] <= Len(order[p].Items)

\* C6: two concurrent CreateOrder invocations that each ask for q units of one
\* product, with q within the stock but 2q above it, and that both succeed
\* leave the stock at the initial value minus q with both orders persisted
\* (stock 5, q = 3: stock 2 and 6 units sold).
C6_BothSucceedOversell ==
    \A q \in 1..MaxQty :
        (/\ 2 * q > InitStock
         /\ \A p \in Procs :
               /\ Creating(p)
               /\ Len(order[p].Items) = 1
               /\ order[p].Items[1].Quantity = q
               /\ ret[p].state = "ok")
        => /\ stock[PreProduct] = InitStock - q
           /\ \A p \in Procs : Persisted(p)
           /\ order[1].ID # order[2].ID

C6_Witness ==
    /\ \A p \in Procs :
          /\ Creating(p)
          /\ Len(order[p].Items) = 1
          /\ order[p].Items[1].Quantity = 3
          /\ stock0[p][PreProduct] = 5
          /\ ret[p].state = "ok"
          /\ Persisted(p)
    /\ stock[PreProduct] = 2

\* C7: an order whose stored status is cancelled is cancelled in every later
\* state.
C7_CancelledIsTerminal ==
    [][\A r \in orderRows :
          r.status = StatusCancelled =>
              \E r2 \in orderRows' : r2.id = r.id /\ r2.status = StatusCancelled]_vars

\* the stock values the invocation read for a product
Observed(p, id) == {calls[p][i].val : i \in OkCallsTo(p, "GetProduct", id)}

AggregateExceeds(p) ==
    \E id \in Products :
        \E s \in Observed(p, id) : SumQty(order[p].Items, id) > s

NoSideEffect(p) ==
    /\ \A i \in 1..Len(calls[p]) : calls[p][i].call = "GetProduct"
    /\ repoRet[p] = RepoNone
    /\ nextId = 1
    /\ orderRows = {}
    /\ stock = stock0[p]

\* C8 as claimed: CreateOrder fails with insufficient stock exactly when some
\* product's aggregate quantity exceeds the stock observed for it, and then
\* without any UpdateStock, any store write or any stock change.
C8_InsufficientIffAggregateExceeds ==
    \A p \in Procs :
        (Creating(p) /\ Done(p)) =>
            /\ (ret[p].err = "insufficient stock") <=> AggregateExceeds(p)
            /\ ret[p].err = "insufficient stock" => NoSideEffect(p)

NoLookupFailed(p) ==
    \A i \in 1..Len(calls[p]) : calls[p][i].call = "GetProduct" => calls[p][i].ok

\* C8 as amended: CreateOrder fails with insufficient stock exactly when no
\* GetProduct of the invocation failed and some product's aggregate quantity
\* exceeds the stock observed for it, and then without any UpdateStock, any
\* store write or any stock change.
C8_InsufficientIffAggregateExceedsNoLookupFailure ==
    \A p \in Procs :
        (Creating(p) /\ Done(p)) =>
            /\ (ret[p].err = "insufficient stock")
                  <=> (NoLookupFailed(p) /\ AggregateExceeds(p))
            /\ ret[p].err = "insufficient stock" => NoSideEffect(p)

\* the lines of one product pass one by one until the last exceeds the stock
C8_Witness ==
    \E p \in Procs :
        /\ Creating(p) /\ Done(p)
        /\ ret[p].err = "insufficient stock"
        /\ Len(order[p].Items) >= 2
        /\ Len(calls[p]) = Len(order[p].Items)
        /\ \A i \in 1..Len(order[p].Items) :
              /\ order[p].Items[i].ProductID = order[p].Items[1].ProductID
              /\ order[p].Items[i].Quantity <= stock0[p][order[p].Items[1].ProductID]

Last(S) == CHOOSE i \in S : \A j \in S : j <= i

\* C9: a successful CreateOrder issues one reservation UpdateStock per distinct
\* product, carrying the last stock value read for the product in the
\* invocation minus the aggregate quantity of its line items.
C9_ReserveFromLastRead ==
    \A p \in Procs :
        (Creating(p) /\ ret[p].state = "ok") =>
            \A id \in ProductIDs(order[p].Items) :
                /\ Cardinality(CallsTo(p, "UpdateStock", id)) = 1
                /\ \A i \in CallsTo(p, "UpdateStock", id) :
                      calls[p][i].val
                          = calls[p][Last(OkCallsTo(p, "GetProduct", id))].val
                            - SumQty(order[p].Items, id)

\* C10: in a successful CreateOrder the aggregate quantity of every product is
\* at most the stock recorded for it in productsInfo, also when the product's
\* lines read different stock values.
C10_AggregateWithinStockAtCheck ==
    \A p \in Procs :
        (Creating(p) /\ ret[p].state = "ok") =>
            \A id \in ProductIDs(order[p].Items) :
                SumQty(order[p].Items, id) <= productsInfo[p][id].Stock

\* a successful order whose two lines of one product read different stocks
C10_Witness ==
    \E p \in Procs :
        /\ Creating(p) /\ ret[p].state = "ok"
        /\ \E id \in Products : Cardinality(Observed(p, id)) > 1


\* the messages with which the head of CreateOrder rejects a request
ValidationErrors ==
    {"invalid user ID", "order must contain at least one item",
     "invalid product ID", "quantity must be positive",
     "price cannot be negative",
     "order can only be created with 'pending' status"}

\* the request conditions the interface lists as invalid
ListedInvalid(o) ==
    \/ o.UserID <= 0
    \/ Len(o.Items) = 0
    \/ \E i \in 1..Len(o.Items) :
          o.Items[i].ProductID <= 0 \/ o.Items[i].Quantity <= 0

\* nothing was asked of the inventory and nothing written by p
NothingIssued(p) ==
    /\ calls[p] = <<>>
    /\ stock = stock0[p]
    /\ orderRows = {} /\ itemRows = {} /\ nextId = 1
    /\ tx[p] = NoTx

\* p leaves the validation at the head of CreateOrder in this step
Validates(p) == Creating(p) /\ pc[p] = "uc_validate" /\ pc'[p] # "uc_validate"

\* C11: CreateOrder rejects a request with a validation error exactly when
\* the user id is not positive, the item list is empty or some item has a
\* non-positive product id or quantity, and a rejected request has caused no
\* inventory call and no store write.
C11_RejectedIffListedInvalid ==
    [][\A p \in Procs :
          /\ Validates(p) =>
                ((ret'[p].err \in ValidationErrors) <=> ListedInvalid(order[p]))
          /\ (Creating(p) /\ ret'[p].err \in ValidationErrors) => NothingIssued(p)']_vars

\* C11 as amended: the request is also rejected for a negative caller price
\* of an item and for a status other than pending.
C11_RejectedIffInvalid ==
    [][\A p \in Procs :
          /\ Validates(p) =>
                ((ret'[p].err \in ValidationErrors)
                 <=> \/ ListedInvalid(order[p])
                     \/ \E i \in 1..Len(order[p].Items) : order[p].Items[i].Price < 0
                     \/ order[p].Status \notin {"", StatusPending})
          /\ (Creating(p) /\ ret'[p].err \in ValidationErrors) => NothingIssued(p)']_vars

\* a request with a valid user, product and quantity was rejected for the
\* negative price the caller sent, with nothing issued
C11_Witness ==
    \E p \in Procs :
        /\ Creating(p) /\ Done(p)
        /\ ret[p].err = "price cannot be negative"
        /\ ~ListedInvalid(order[p])
        /\ NothingIssued(p)


\* C12: every item of a persisted order carries the price that the snapshot
\* of its product (the one whose stock is used for the reservation) recorded
\* in this run, so all items of one product in an order carry the same price.
C12_ItemsCarrySnapshotPrice ==
    \A p \in Procs :
        (Creating(p) /\ Done(p) /\ ret[p].state = "ok") =>
            /\ \A r \in ItemsOf(ret[p].orderId) :
                  r.price = productsInfo[p][r.product_id].Price
            /\ \A r1, r2 \in ItemsOf(ret[p].orderId) :
                  r1.product_id = r2.product_id => r1.price = r2.price


\* p is an UpdateOrderStatus invocation that has loaded its order
Changing(p) == op[p] = "status" /\ currentOrder[p] # NoOrder

\* p has loaded its order in the given status and asks for the given one
From(p, current, status) ==
    Changing(p) /\ currentOrder[p].Status = current /\ target[p].status = status

StoredStatus(id) == RowOf(id).status

InvalidTransitionErrors ==
    {"cannot cancel a completed order", "cannot change status of a cancelled order"}

\* C13: a status change of a completed order to cancelled, or of a cancelled
\* order to another status, is rejected with an invalid-transition error, and
\* the rejected call has issued no GetProduct, no SetStock and no status write.
C13_InvalidTransitionRejected ==
    \A p \in Procs :
        (Done(p) /\ (\/ From(p, StatusCompleted, StatusCancelled)
                     \/ From(p, StatusCancelled, StatusPending)
                     \/ From(p, StatusCancelled, StatusCompleted))) =>
            /\ ret[p].state = "err"
            /\ ret[p].err \in InvalidTransitionErrors
            /\ calls[p] = <<>>
            /\ stock = stock0[p]
            /\ StoredStatus(target[p].id) = currentOrder[p].Status

\* the request to cancel a completed order and the request to reopen a
\* cancelled one have both been answered
C13_Witness ==
    /\ Done(1) /\ From(1, StatusCompleted, StatusCancelled)
    /\ ret[1].err = "cannot cancel a completed order"
    /\ Done(2) /\ From(2, StatusCompleted, StatusCancelled)

\* C14: cancelling a pending order when no call and no statement fails and
\* nothing else runs leaves the order cancelled and every product's stock at
\* its value before the call plus the quantities of all the order's items of
\* that product.
C14_CancelReturnsEveryQuantity ==
    \A p \in Procs :
        (Done(p) /\ From(p, StatusPending, StatusCancelled) /\ faults = 0) =>
            /\ ret[p] = RetOk(target[p].id)
            /\ StoredStatus(target[p].id) = StatusCancelled
            /\ \A id \in Products :
                  stock[id] = stock0[p][id] + SumQty(currentOrder[p].Items, id)

\* a pending order with two lines of one product has been cancelled
C14_Witness ==
    \E p \in Procs :
        /\ Done(p) /\ From(p, StatusPending, StatusCancelled) /\ faults = 0
        /\ Len(currentOrder[p].Items) >= 2
        /\ currentOrder[p].Items[1].ProductID = currentOrder[p].Items[2].ProductID
        /\ stock[currentOrder[p].Items[1].ProductID] > InitStock + 1

\* C15: cancelling an order that is already cancelled issues no GetProduct
\* and no SetStock and leaves the order cancelled; when the order store does
\* not fail it returns success, and the same request sent again behaves the
\* same way.
C15_RecancelIsNoOp ==
    \A p \in Procs :
        (Done(p) /\ From(p, StatusCancelled, StatusCancelled)) =>
            /\ calls[p] = <<>>
            /\ stock = stock0[p]
            /\ StoredStatus(target[p].id) = StatusCancelled
            /\ faults = 0 => ret[p] = RetOk(target[p].id)
            /\ \A q \in Procs :
                  (Done(q) /\ From(q, StatusCancelled, StatusCancelled) /\ faults = 0)
                      => (ret[q] = ret[p] /\ calls[q] = calls[p])

\* a cancelled order has been cancelled again, twice in a row
C15_Witness ==
    /\ Done(1) /\ From(1, StatusCancelled, StatusCancelled)
    /\ Done(2) /\ From(2, StatusCancelled, StatusCancelled)
    /\ faults = 0
    /\ ret[2].state = "ok"

\* the calls of one kind that p issued, in order
CallsNamed(p, name) == SelectSeq(calls[p], LAMBDA c : c.call = name)

\* p takes its last step
Finishes(p) == pc[p] # "done" /\ pc'[p] = "done"

\* C16: when an order is cancelled, a GetProduct or SetStock that fails for
\* one item does not stop the call: every item is looked up in turn, every
\* item that was read is written back, the status write is then attempted
\* and, when it takes effect, the call returns the cancelled order.
C16_RestockIsBestEffort ==
    [][\A p \in Procs :
          (Finishes(p) /\ From(p, StatusPending, StatusCancelled)') =>
              /\ pc[p] = "t_write"
              /\ LET gets == CallsNamed(p, "GetProduct")'
                     items == currentOrder'[p].Items
                 IN /\ Len(gets) = Len(items)
                    /\ \A i \in 1..Len(items) : gets[i].id = items[i].ProductID
                    /\ Len(CallsNamed(p, "Restock")')
                          = Cardinality({i \in 1..Len(gets) : gets[i].ok})
              /\ StoredStatus(target[p].id)' = StatusCancelled
                    => ret'[p] = RetOk(target[p].id)]_vars

\* an order was cancelled although a lookup and a write of its restock failed
C16_Witness ==
    \E p \in Procs :
        /\ Done(p) /\ From(p, StatusPending, StatusCancelled)
        /\ ret[p].state = "ok"
        /\ StoredStatus(target[p].id) = StatusCancelled
        /\ \E i \in 1..Len(calls[p]) : calls[p][i].call = "GetProduct" /\ ~calls[p][i].ok
        /\ \E i \in 1..Len(calls[p]) : calls[p][i].call = "Restock" /\ ~calls[p][i].ok

\* C17: when the status write of a cancellation fails after stock was
\* returned, the call returns an error, the order keeps its prior status and
\* the stock that was returned stays returned.
C17_FailedStatusWriteIsReported ==
    [][\A p \in Procs :
          (/\ Finishes(p) /\ pc[p] = "t_write"
           /\ From(p, StatusPending, StatusCancelled)
           /\ \E i \in 1..Len(calls[p]) :
                 calls[p][i].call = "Restock" /\ calls[p][i].ok
           /\ StoredStatus(target[p].id)' # StatusCancelled) =>
              /\ ret'[p].state = "err"
              /\ StoredStatus(target[p].id)' = currentOrder[p].Status
              /\ stock' = stock
              /\ calls'[p] = calls[p]]_vars


\* p is a ListOrders request that was answered with a page
Listed(p) == op[p] = "list" /\ Done(p) /\ ret[p].state = "ok"

\* C18: the page size of ListOrders is 10 when the requested limit is absent
\* or not positive, the requested limit when it is between 1 and 100, and 100
\* when it is larger; the offset is 0 when the requested one is negative and
\* the requested one otherwise.
C18_LimitDefaultedAndClamped ==
    \A p \in Procs :
        Listed(p) =>
            /\ list[p].sqlLimit =
                  (IF list[p].limit <= 0 THEN 10
                   ELSE IF list[p].limit <= 100 THEN list[p].limit
                   ELSE 100)
            /\ list[p].sqlOffset = (IF list[p].offset < 0 THEN 0 ELSE list[p].offset)


\* the kinds of CreateOrder failure the interface names, by code
InvalidArgumentKinds ==
    {"invalid user ID", "order must contain at least one item",
     "invalid product ID", "quantity must be positive"}
NotFoundKinds == {"inventory check failed: product not found"}
FailedPreconditionKinds == {"insufficient stock"}
InternalKinds ==
    {"inventory check failed: inventory service error", "failed to reserve stock",
     "failed to save order after reserving stock"}

\* p is a CreateOrder that failed with an error of one of the given kinds
FailedWith(p, kinds) ==
    Creating(p) /\ Done(p) /\ ret[p].state = "err" /\ ret[p].err \in kinds

\* C19: every failure of CreateOrder reaches the caller with the code of its
\* kind: a validation rejection (user id, empty list, product id, quantity)
\* as InvalidArgument, an unknown product as NotFound, insufficient stock as
\* FailedPrecondition, reservation, dependency and persistence failures as
\* Internal.
C19_FailureCodeOfItsKind ==
    \A p \in Procs :
        LET code == CreateOrderCode(order[p], ret[p]) IN
        /\ FailedWith(p, InvalidArgumentKinds) => code = "InvalidArgument"
        /\ FailedWith(p, NotFoundKinds) => code = "NotFound"
        /\ FailedWith(p, FailedPreconditionKinds) => code = "FailedPrecondition"
        /\ FailedWith(p, InternalKinds) => code = "Internal"


\* the errors of the validation, of a lookup and of the sufficiency check
EarlyFailures ==
    ValidationErrors \cup NotFoundKinds \cup FailedPreconditionKinds
    \cup {"inventory check failed: inventory service error"}

\* positions in the call log of p of the calls that write a stock
Writes(p) == {i \in 1..Len(calls[p]) : calls[p][i].call # "GetProduct"}

\* C20: a CreateOrder that fails in the validation, in a GetProduct lookup
\* (product not found included) or in the sufficiency check has issued no
\* SetStock and no store write; every line item is read and checked before
\* the first SetStock.
C20_NoSideEffectBeforeChecksPass ==
    \A p \in Procs :
        Creating(p) =>
            /\ FailedWith(p, EarlyFailures) =>
                  /\ Writes(p) = {}
                  /\ stock = stock0[p]
                  /\ orderRows = {} /\ itemRows = {} /\ nextId = 1
                  /\ tx[p] = NoTx
            /\ Writes(p) # {} =>
                  /\ \A i \in Writes(p), j \in 1..Len(calls[p]) :
                        calls[p][j].call = "GetProduct" => j < i
                  /\ Cardinality({j \in 1..Len(calls[p]) :
                                     calls[p][j].call = "GetProduct" /\ calls[p][j].ok})
                        = Len(order[p].Items)

\* the first line passed the check and the lookup of the second line failed
C20_Witness ==
    \E p \in Procs :
        /\ FailedWith(p, NotFoundKinds)
        /\ Len(calls[p]) = 2
        /\ calls[p][1].ok
        /\ Writes(p) = {}


\* p has called OrderStore.CreateOrder
StoreCalled(p) ==
    \/ pc[p] \in {"repo_begin", "repo_header", "repo_prepare", "repo_item", "repo_commit"}
    \/ repoRet[p].returned

\* C21: OrderStore.CreateOrder is called only after the reservation SetStock
\* of every distinct product of the order has succeeded, and with status
\* pending; no order is persisted with another initial status.
C21_StoreCalledAfterAllReservedAsPending ==
    /\ \A p \in Procs :
          (Creating(p) /\ StoreCalled(p)) =>
              /\ \A id \in ProductIDs(order[p].Items) :
                    OkCallsTo(p, "UpdateStock", id) # {}
              /\ order[p].Status = StatusPending
              /\ \A r \in tx[p].header : r.status = StatusPending
    /\ \A r \in orderRows : r.status = StatusPending

\* an order of two products is in the store, both reserved before
C21_Witness ==
    \E p \in Procs :
        /\ Creating(p) /\ Done(p) /\ ret[p].state = "ok"
        /\ Cardinality(ProductIDs(order[p].Items)) = 2
        /\ RowOf(order[p].ID).status = StatusPending


\* the changes of status the interface allows
LegalEdges ==
    {<<StatusPending, StatusCompleted>>, <<StatusPending, StatusCancelled>>}

\* C22: the only changes between different statuses that UpdateOrderStatus
\* performs are pending to completed and pending to cancelled; every other
\* request for a different status is rejected and leaves the stored status
\* as it was.
C22_OnlyLegalEdges ==
    [][/\ \A r \in orderRows, r2 \in orderRows' :
             (r.id = r2.id /\ r.status # r2.status)
                 => <<r.status, r2.status>> \in LegalEdges
       /\ \A p \in Procs :
             (/\ Finishes(p) /\ Changing(p)'
              /\ currentOrder'[p].Status # target[p].status
              /\ <<currentOrder'[p].Status, target[p].status>> \notin LegalEdges) =>
                 /\ ret'[p].state = "err"
                 /\ StoredStatus(target[p].id)' = currentOrder'[p].Status]_vars


\* positions in the call log of p of the compensating calls that failed
FailedRollbacks(p) ==
    {i \in 1..Len(calls[p]) : calls[p][i].call = "Rollback" /\ ~calls[p][i].ok}

\* C23: a compensating SetStock that fails changes neither what CreateOrder
\* returns nor the course of the compensation: the caller receives the error
\* of the failed reservation or of the failed persistence, and every product
\* that was reserved has had its compensating call.
C23_CompensationFailureIsSilent ==
    \A p \in Procs :
        (Creating(p) /\ Done(p) /\ FailedRollbacks(p) # {}) =>
            /\ ret[p].state = "err"
            /\ ret[p].err = (IF repoRet[p].err
                             THEN "failed to save order after reserving stock"
                             ELSE "failed to reserve stock")
            /\ repoRet[p].err \/ \E i \in 1..Len(calls[p]) :
                  calls[p][i].call = "UpdateStock" /\ ~calls[p][i].ok
            /\ \A id \in DOMAIN successfullyDecreased[p] :
                  Cardinality(CallsTo(p, "Rollback", id)) = 1

\* the first compensating call failed and the second product was still
\* compensated
C23_Witness ==
    \E p \in Procs :
        /\ Creating(p) /\ Done(p)
        /\ \E i \in FailedRollbacks(p) :
              \E j \in (i + 1)..Len(calls[p]) :
                  calls[p][j].call = "Rollback" /\ calls[p][j].ok
        /\ ret[p].err = "failed to save order after reserving stock"


\* the reservation of p failed for the deadline alone: the request context
\* is done, no call failed for another reason, the value was acceptable
ReservationTimedOut(p) ==
    /\ Creating(p) /\ Done(p)
    /\ trigErr[p] = "failed to reserve stock"
    /\ ctxDone[p]
    /\ faults = 0
    /\ \A i \in 1..Len(calls[p]) :
          (calls[p][i].call = "UpdateStock" /\ ~calls[p][i].ok)
              => ~UpdateStockRefused(calls[p][i].id, calls[p][i].val)

\* C24: when a reservation SetStock fails because its deadline expired, the
\* deadline of the inbound request context included, every product already
\* reserved by the invocation ends up restored to the stock read at the check.
C24_TimeoutRestoresStock ==
    \A p \in Procs :
        ReservationTimedOut(p) =>
            \A id \in DOMAIN successfullyDecreased[p] :
                stock[id] = productsInfo[p][id].Stock


\* the calls p has issued stay within one GetProduct per line item, one
\* reservation and one compensating UpdateStock per product, and nothing
\* follows a GetProduct that failed
CallsWithinBounds(p) ==
    /\ Len(CallsNamed(p, "GetProduct")) <= Len(order[p].Items)
    /\ \A id \in ProductIDs(order[p].Items) :
          /\ Cardinality(CallsTo(p, "UpdateStock", id)) <= 1
          /\ Cardinality(CallsTo(p, "Rollback", id)) <= 1
    /\ \A i \in 1..Len(calls[p]) :
          (calls[p][i].call = "GetProduct" /\ ~calls[p][i].ok) => i = Len(calls[p])
    /\ \A i \in 1..Len(calls[p]) :
          (calls[p][i].call = "UpdateStock" /\ ~calls[p][i].ok) =>
              \A j \in (i + 1)..Len(calls[p]) : calls[p][j].call = "Rollback"

\* C25: every CreateOrder invocation whose calls return comes to an end,
\* after at most one GetProduct per line item, one reservation and one
\* compensating SetStock per distinct product and one OrderStore.CreateOrder;
\* a call that failed is not issued again.
C25_TerminatesWithinCallBounds ==
    /\ [](\A p \in Procs : Creating(p) => CallsWithinBounds(p))
    /\ [][\A p \in Procs :
              (Creating(p) /\ repoRet[p].returned) =>
                  /\ pc'[p] \notin {"repo_begin", "repo_header", "repo_prepare",
                                    "repo_item", "repo_commit"}
                  /\ repoRet'[p] = repoRet[p]]_vars
    /\ <>(\A p \in Procs : Creating(p) => Done(p))

\* an invocation ended after two lookups, a reservation, a failed store call
\* and a compensation
C25_Witness ==
    \E p \in Procs :
        /\ Creating(p) /\ Done(p)
        /\ Len(CallsNamed(p, "GetProduct")) = 2
        /\ repoRet[p].err
        /\ Len(CallsNamed(p, "Rollback")) >= 1


\* the row is kept as it is, or the status write at which an UpdateOrderStatus
\* for this order stands has replaced its status and nothing else
RowKept(r) ==
    \/ r \in orderRows'
    \/ \E p \in Procs :
          /\ pc[p] = "t_write"
          /\ target[p].id = r.id
          /\ [r EXCEPT !.status = target[p].status] \in orderRows'

\* C26: once an order is stored no step changes its user or its items
\* (product, quantity, price) and none deletes it; a status change replaces
\* the status of its own order only; a price edit in the inventory leaves
\* the prices of stored orders as they are.
C26_StoredOrdersAreFrozen ==
    [][\A r \in orderRows :
          /\ RowKept(r)
          /\ Cardinality({x \in orderRows' : x.id = r.id}) = 1
          /\ ItemsOf(r.id)' = ItemsOf(r.id)]_vars

\* two orders are stored, the first one has got another status than it was
\* created with, and the price of its product has been raised since
C26_Witness ==
    /\ Cardinality(orderRows) = 2
    /\ RowOf(PreOrder.ID).status # PreOrder.Status
    /\ price[PreProduct] # PriceOf(PreProduct)
    /\ \A p \in Procs : pc[p] = "done"


\* the successful Restock calls for a product, of all invocations
Restocks(id) ==
    UNION {{<<p, i>> : i \in OkCallsTo(p, "Restock", id)} : p \in Procs}

\* C27: over every sequence and interleaving of UpdateOrderStatus invocations
\* on one order, a retry after a failed status write and two concurrent
\* cancellations included, the quantity of each item is added back to the
\* stock at most once: a product is restocked no more often than the order
\* has items of it.
C27_RestockedAtMostOnce ==
    \A id \in Products :
        Cardinality(Restocks(id)) <=
            Cardinality({r \in ItemsOf(PreOrder.ID) : r.product_id = id})


\* p has failed and has put the product back to its stockAtCheck
Restored(p, id) ==
    /\ Creating(p) /\ Done(p)
    /\ ret[p].state = "err"
    /\ OkCallsTo(p, "Rollback", id) # {}

\* C28: the compensation of a failed CreateOrder does not undo another
\* order: when one invocation fails and restores a product while a
\* concurrent one reserves the same product and succeeds, the stock at the
\* end still lacks the quantity of the successful order.
C28_CompensationKeepsOtherReservation ==
    \A p, q \in Procs :
        \A id \in Products :
            (/\ p # q
             /\ Restored(p, id)
             /\ Creating(q) /\ Done(q)
             /\ ret[q].state = "ok" /\ Persisted(q))
                => stock[id] <= stock0[q][id] - SumQty(order[q].Items, id)


RECURSIVE SumQuantity(_)
\* the quantities of a set of item rows, added up
SumQuantity(rows) ==
    IF rows = {} THEN 0
    ELSE LET r == CHOOSE x \in rows : TRUE
         IN  r.quantity + SumQuantity(rows \ {r})

\* the item rows of a product in the orders that are pending or completed
Held(id) ==
    {r \in itemRows :
        /\ r.product_id = id
        /\ RowOf(r.order_id).status \in {StatusPending, StatusCompleted}}

BetweenInvocations == \A p \in Procs : pc[p] \in {"off", "done"}

\* C29: when CreateOrder and UpdateOrderStatus invocations run one at a time
\* and no call has failed, between invocations the initial stock of every
\* product equals its stock plus the quantities of its items in the orders
\* that are pending or completed.
C29_StockConservedSequentially ==
    (BetweenInvocations /\ faults = 0) =>
        \A id \in Products : InitStock = stock[id] + SumQuantity(Held(id))

\* after an order was created and cancelled and another one created, with
\* no failure on the way
C29_Witness ==
    /\ BetweenInvocations /\ faults = 0
    /\ \E r \in orderRows : r.status = StatusCancelled
    /\ \E r \in orderRows : r.status = StatusCompleted
    /\ stock[PreProduct] < InitStock


\* positions in the call log of p of the writes that carry a negative value
NegativeWrites(p) == {i \in Writes(p) : calls[p][i].val < 0}

\* C30: under every interleaving of CreateOrder and UpdateOrderStatus
\* invocations the stock of every product is never negative and no SetStock
\* with a negative value reaches the inventory service: the client refuses
\* it before the remote call, and CreateOrder treats the refusal as a failed
\* reservation, compensates and returns the reservation error.
C30_StockNeverNegative ==
    /\ \A id \in Products : stock[id] >= 0
    /\ \A p \in Procs :
          \A i \in NegativeWrites(p) :
              /\ ClientRejectsStock(calls[p][i].val)
              /\ ~calls[p][i].ok
              /\ Creating(p) =>
                    /\ trigErr[p] = "failed to reserve stock"
                    /\ Done(p) =>
                          /\ ret[p] = RetErr("failed to reserve stock")
                          /\ \A id \in DOMAIN successfullyDecreased[p] :
                                CallsTo(p, "Rollback", id) # {}

\* a CreateOrder has ended after the client refused its negative value,
\* while the stock had been raised by a cancellation
C30_Witness ==
    /\ \E p \in Procs : Creating(p) /\ Done(p) /\ NegativeWrites(p) # {}
    /\ \E p \in Procs : OkCallsTo(p, "Restock", PreProduct) # {}

====
